---- MODULE Spec2Model ----
(***************************************************************************)
(* A model of only-config (src/src/Config.js): the Config manager, which   *)
(* deep-merges patches into a schema-validated configuration object, and   *)
(* the Observable it notifies subscribers with.                            *)
(*                                                                         *)
(* Data.  A configuration tree is a function from the paths of its leaves  *)
(* (sequences of property names) to leaves; {} is the function with no     *)
(* path.  A value that is not an object (a number, a string, undefined,    *)
(* null) is the tree with the single path << >>.  An object's identity is  *)
(* the pair (ref, path): ref numbers the object literal or the merge that  *)
(* created it (deepmerge clones every nested object, so every commit       *)
(* makes new objects), path is its place inside that object.  Values that  *)
(* are not objects carry ref 0 and are identical when they are equal.  An  *)
(* array of numbers is a leaf that holds the numbers; it has an identity.  *)
(***************************************************************************)
EXTENDS Integers, Sequences, FiniteSets, TLC

\* The longest listener list an Observable of the model grows to.
MaxListeners == 1

-----------------------------------------------------------------------------
(* Leaves, paths and trees *)

Num(n) == [k |-> "num", v |-> <<n>>]
Str == [k |-> "str", v |-> <<>>]
Undef == [k |-> "undefined", v |-> <<>>]
Null == [k |-> "null", v |-> <<>>]
\* An array of numbers, the numbers in elems.
Arr(elems) == [k |-> "arr", v |-> elems]

NoKey == <<>>
Pa == <<"a">>
Pbc == <<"b", "c">>
Px == <<"x">>

EmptyTree == [p \in {} |-> Null]
Prim(leaf) == [p \in {NoKey} |-> leaf]
Leaf1(p, leaf) == [q \in {p} |-> leaf]
Leaf2(p1, l1, p2, l2) == [q \in {p1, p2} |-> IF q = p1 THEN l1 ELSE l2]

IsPrefix(p, q) == Len(p) <= Len(q) /\ SubSeq(q, 1, Len(p)) = p
Related(p, q) == IsPrefix(p, q) \/ IsPrefix(q, p)
IsObject(t) == NoKey \notin DOMAIN t
IsArray(t) == NoKey \in DOMAIN t /\ t[NoKey].k = "arr"

\* A path whose last segment is the index 0, as in 'a.0', and the path of
\* what it indexes.
IsIndexKey(key) == key # NoKey /\ key[Len(key)] = "0"
Parent(key) == SubSeq(key, 1, Len(key) - 1)

\* _.get(tree, key): the value at a dotted path, undefined when a segment is
\* missing; get() with no key is the whole tree.
Get(t, key) ==
  IF key = NoKey THEN t
  ELSE IF IsIndexKey(key) /\ Parent(key) \in DOMAIN t /\ t[Parent(key)].k = "arr"
  THEN IF t[Parent(key)].v = << >> THEN Prim(Undef) ELSE Prim(Num(t[Parent(key)].v[1]))
  ELSE LET sub == {SubSeq(q, Len(key) + 1, Len(q)) : q \in {q \in DOMAIN t : IsPrefix(key, q)}}
       IN IF sub = {} THEN Prim(Undef) ELSE [p \in sub |-> t[key \o p]]

\* _.set({}, key, value): value wrapped into the object shaped by the path;
\* an index segment makes an array (here: index 0 and a number).
SetPath(key, value) ==
  IF IsIndexKey(key) /\ NoKey \in DOMAIN value /\ value[NoKey].k = "num"
  THEN Leaf1(Parent(key), Arr(value[NoKey].v))
  ELSE
  [q \in {key \o p : p \in DOMAIN value} |-> value[SubSeq(q, Len(key) + 1, Len(q))]]

\* deepMerge.all([base, patch]) of two objects: objects are merged key by
\* key, two arrays at the same path are concatenated (the library's default
\* arrayMerge), anything else in the patch replaces what the base holds.
DeepMerge(base, patch) ==
  LET kept == {p \in DOMAIN base : \A q \in DOMAIN patch : ~Related(p, q)}
      both(p) == p \in DOMAIN base /\ base[p].k = "arr" /\ patch[p].k = "arr"
  IN [p \in kept \cup DOMAIN patch |->
        IF p \in DOMAIN patch
        THEN IF both(p) THEN Arr(base[p].v \o patch[p].v) ELSE patch[p]
        ELSE base[p]]

-----------------------------------------------------------------------------
(* The schema collaborator (Joi).  Three object schemas over the keys a    *)
(* and b.c; any other key is unknown to them:                              *)
(*   S1  { a: number(),            b: { c: number() } }                    *)
(*   S2  { a: number().required(), b: { c: number() } }                    *)
(*   S3  { a: string().default(s), b: { c: number() } }                    *)
(* NullSchema is the constructor's default schema = null, NotJoi an object *)
(* that Joi.isSchema rejects.  ArraySchema is a fourth schema, used where  *)
(* arrays are merged:                                                      *)
(*   S4  { a: array().items(number()), b: { c: number() } }                *)

SchemaIds == {"S1", "S2", "S3"}
NullSchema == "null"
NotJoi == "notJoi"
ArraySchema == "S4"
SchemaArgs == SchemaIds \cup {NullSchema, NotJoi}

SchemaPaths(s) == {Pa, Pbc}
KindOf(s, p) ==
  IF p = Pa /\ s = "S3" THEN "str"
  ELSE IF p = Pa /\ s = ArraySchema THEN "arr" ELSE "num"
RequiredPaths(s) == IF s = "S2" THEN {Pa} ELSE {}
Defaults(s) == IF s = "S3" THEN Leaf1(Pa, Str) ELSE EmptyTree

Present(t, p) == \E q \in DOMAIN t : Related(p, q)

\* The errors schema.validate(t, {abortEarly: false, allowUnknown}) collects.
Errors(s, t, allowUnknown) ==
  LET known(p) == \E q \in SchemaPaths(s) : Related(p, q)
      wrong(p) == IF p \in SchemaPaths(s) THEN t[p].k # KindOf(s, p) ELSE known(p)
  IN {[path |-> p, type |-> "base"] : p \in {p \in DOMAIN t : wrong(p)}}
     \cup {[path |-> p, type |-> "unknown"] :
             p \in {p \in DOMAIN t : ~allowUnknown /\ ~known(p)}}
     \cup {[path |-> p, type |-> "required"] :
             p \in {p \in RequiredPaths(s) : ~Present(t, p)}}

\* The value schema.validate returns: t with the schema's defaults filled in.
Normalized(s, t) ==
  LET d == Defaults(s)
      added == {p \in DOMAIN d : ~Present(t, p)}
  IN [p \in DOMAIN t \cup added |-> IF p \in DOMAIN t THEN t[p] ELSE d[p]]

\* schema.validate(t, {abortEarly: false, allowUnknown}) -> {error, value}
Validate(s, t, allowUnknown) ==
  [error |-> Errors(s, t, allowUnknown), value |-> Normalized(s, t)]

-----------------------------------------------------------------------------
(* Values with identity, and Observable *)

\* The value `tree` made by creation `ref` at `path` of the object created.
Value(ref, path, tree) ==
  IF IsObject(tree) \/ IsArray(tree) THEN [ref |-> ref, path |-> path, val |-> tree]
  ELSE [ref |-> 0, path |-> NoKey, val |-> tree]

\* new Observable(value)
ObsNew(value) == [val |-> value, listeners |-> << >>]

\* ObsChanges comparing the contents of the two values (deep equality).
ObsChangesDeep(o, val) == o.val.val # val.val

\* Observable.set: whether `this.#val !== val`
ObsChanges(o, val) == o.val # val

\* Observable.set: the Observable after set(val)
ObsSet(o, val) == IF ObsChanges(o, val) THEN [o EXCEPT !.val = val] ELSE o

\* Observable.set: the listener calls set(val) makes, in order; `tag` names
\* the Observable in the log.
ObsCalls(o, val, tag) ==
  IF ObsChanges(o, val)
  THEN [i \in 1..Len(o.listeners) |-> [obs |-> tag, listener |-> o.listeners[i], val |-> val]]
  ELSE << >>

\* ObsSubscribe putting the listener in front of the list.
ObsSubscribeFirst(o, listener) == [o EXCEPT !.listeners = <<listener>> \o @]

\* Observable.subscribe: listeners.push(listener)
ObsSubscribe(o, listener) == [o EXCEPT !.listeners = Append(@, listener)]

\* ObsUnsubscribe emptying the listener list.
ObsUnsubscribeAll(o, listener) == [o EXCEPT !.listeners = << >>]

\* The closure Observable.subscribe returns: listeners.filter(l => l !== listener)
ObsUnsubscribe(o, listener) ==
  [o EXCEPT !.listeners = SelectSeq(@, LAMBDA l : l # listener)]

-----------------------------------------------------------------------------
(* Config *)

VARIABLES
  phase,        \* "new" before new Config(...), then "live", or "failed" when the constructor threw
  schema,       \* #schema
  config,       \* #config
  observable,   \* #observable, the root Observable
  observables,  \* #observables: key -> Observable
  op,           \* the name of the last call
  result,       \* how the last call ended
  calls,        \* the listener calls the last call made, in order
  obs,          \* an Observable used on its own
  obsOp,        \* the last call on obs
  obsCalls,     \* the listener calls the last call on obs made, in order
  obsGone,      \* the listeners whose unsubscribe closure was called since they subscribed
  pass,         \* the notification passes of the root Observable that are running, the outermost first
  last,         \* listener -> the value it was last called with during the running outermost set
  nested        \* whether a listener has called config.set during the running outermost set

configVars == <<phase, schema, config, observable, observables, op, result, calls>>
obsVars == <<obs, obsOp, obsCalls, obsGone>>
passVars == <<pass, last, nested>>
vars == <<phase, schema, config, observable, observables, op, result, calls,
          obs, obsOp, obsCalls, obsGone, pass, last, nested>>

Listeners == {"f"}
\* The keys of set({key}) and, SubKeys, of subscribe({key}).
Keys == {Pa, Pbc}
SubKeys == {Pa}

\* The values of set({value}) and of the constructor's and setSchema's config.
Patches ==
  { EmptyTree, Leaf1(Pa, Num(1)), Leaf1(Pa, Str), Leaf1(Px, Num(1)),
    Leaf1(Pbc, Num(1)), Leaf2(Pa, Str, Px, Num(1)) }

\* An argument left out (undefined): its default applies.
Omitted == Prim(Undef)

\* The config arguments of setSchema.
SchemaConfigs == {Omitted, EmptyTree, Leaf1(Pa, Num(1))}

\* The values of set({key, value}).
KeyValues(key) ==
  IF key = Pa THEN {Prim(Num(1)), Prim(Str)} ELSE {Prim(Num(1))}

NullValue == Prim(Null)

\* onError: absent, a handler returning true, a handler returning false.
NoHandler == "none"
Accept == "accept"
Reject == "reject"
Handlers == {NoHandler, Accept, Reject}

\* How a call ends: it committed the validated value, committed the
\* allowUnknown value, left the state alone after onError returned false,
\* threw, or returned at once (set without a value, subscribe without onChange).
Ok == "ok"
Fallback == "fallback"
Swallowed == "swallowed"
Threw == "throw"
Noop == "noop"

NoObservables == [k \in {} |-> ObsNew(Prim(Undef))]

\* The fields of a Config.
State == [schema |-> schema, config |-> config, observable |-> observable,
          observables |-> observables]

\* Config._validateJoi: whether it throws.
ValidateJoiThrows(s) == s # NullSchema /\ s = NotJoi

\* Merge storing the merged value before it validates it, so that a throw
\* leaves it in #config.
MergeCommitsFirst(s, cfg, newValue, onError, ref) ==
  LET merged == DeepMerge(cfg.val, newValue)
      r == Validate(s, merged, FALSE)
  IN IF r.error = {} THEN [config |-> Value(ref, NoKey, r.value), end |-> Ok]
     ELSE IF onError = Accept
       THEN [config |-> Value(ref, NoKey, Validate(s, merged, TRUE).value), end |-> Fallback]
       ELSE [config |-> Value(ref, NoKey, merged),
             end |-> IF onError = Reject THEN Swallowed ELSE Threw]

\* Merge whose fallback validates and commits newValue, not the merged value.
MergeFallbackPatchOnly(s, cfg, newValue, onError, ref) ==
  LET merged == DeepMerge(cfg.val, newValue)
      r == Validate(s, merged, FALSE)
  IN IF r.error = {} THEN [config |-> Value(ref, NoKey, r.value), end |-> Ok]
     ELSE IF onError = Accept
       THEN [config |-> Value(ref, NoKey, Validate(s, newValue, TRUE).value), end |-> Fallback]
       ELSE [config |-> cfg, end |-> IF onError = Reject THEN Swallowed ELSE Threw]

\* Merge validating and committing newValue alone, without the prior state.
MergeDropsBase(s, cfg, newValue, onError, ref) ==
  LET r == Validate(s, newValue, FALSE)
  IN IF r.error = {} THEN [config |-> Value(ref, NoKey, r.value), end |-> Ok]
     ELSE IF onError = Accept
       THEN [config |-> Value(ref, NoKey, Validate(s, newValue, TRUE).value), end |-> Fallback]
       ELSE [config |-> cfg, end |-> IF onError = Reject THEN Swallowed ELSE Threw]

\* Config._merge from its first validation on: r is what validate(merged)
\* returned, lenient what validate(merged, {allowUnknown: true}) returns.
MergeEnd(cfg, r, lenient, onError, ref) ==
  IF r.error = {} THEN [config |-> Value(ref, NoKey, r.value), end |-> Ok]
  ELSE IF onError # NoHandler
    THEN IF onError = Accept
         THEN [config |-> Value(ref, NoKey, lenient.value), end |-> Fallback]
         ELSE [config |-> cfg, end |-> Swallowed]
    ELSE [config |-> cfg, end |-> Threw]

\* Config._merge(newValue, onError) on #config = cfg under schema s: the
\* #config it leaves and how it ended; an object it creates is creation
\* `ref`.  A null schema has no validate: the call throws a TypeError.
Merge(s, cfg, newValue, onError, ref) ==
  IF s = NullSchema THEN [config |-> cfg, end |-> Threw]
  ELSE MergeEnd(cfg, Validate(s, DeepMerge(cfg.val, newValue), FALSE),
                Validate(s, DeepMerge(cfg.val, newValue), TRUE), onError, ref)

\* Config._initializeConfig after its _merge, which left m: new observables,
\* unless the merge threw.
InitializeEnd(st, m) ==
  IF m.end = Threw
  THEN [st |-> [st EXCEPT !.config = m.config], end |-> Threw, calls |-> << >>]
  ELSE [st |-> [st EXCEPT !.config = m.config, !.observables = NoObservables,
                          !.observable = ObsNew(m.config)],
        end |-> Ok, calls |-> << >>]

\* Config._initializeConfig(cfgArg): #config = {}, then the merge, then new
\* observables; a throwing merge leaves #config as it left it and the
\* observables as they were.
InitializeConfig(st, cfgArg) ==
  InitializeEnd(st, Merge(st.schema, Value(st.config.ref + 1, NoKey, EmptyTree),
                          cfgArg, NoHandler, st.config.ref + 2))

\* new Config(s, c): the Config it leaves and how it ended.
ConstructResult(st, s, c) ==
  IF ValidateJoiThrows(s) THEN [st |-> st, end |-> Threw, calls |-> << >>]
  ELSE InitializeConfig([st EXCEPT !.schema = s], c)

\* Config.get(key) as a value with its identity.
GetValue(cfg, key) == Value(cfg.ref, key, Get(cfg.val, key))

\* Config.set: the Observable of `key`, if there is one, is set to get(key).
SetNotifyKey(st, key) ==
  IF key # NoKey /\ key \in DOMAIN st.observables
  THEN [st |-> [st EXCEPT !.observables[key] = ObsSet(@, GetValue(st.config, key))],
        calls |-> ObsCalls(st.observables[key], GetValue(st.config, key), key)]
  ELSE [st |-> st, calls |-> << >>]

\* Config.set: the root Observable is set to #config; k is what the step
\* before left and `end` the way the merge ended.
SetNotifyRoot(k, end) ==
  [st |-> [k.st EXCEPT !.observable = ObsSet(@, k.st.config)],
   end |-> end,
   calls |-> k.calls \o ObsCalls(k.st.observable, k.st.config, NoKey)]

\* SetMerged notifying the Observables of the #config before the merge, and
\* storing the merged #config afterwards.
SetMergedNotifiesFirst(st, m, key) ==
  IF m.end = Threw
  THEN [st |-> [st EXCEPT !.config = m.config], end |-> Threw, calls |-> << >>]
  ELSE [st |-> [SetNotifyRoot(SetNotifyKey(st, key), m.end).st EXCEPT !.config = m.config],
        end |-> m.end,
        calls |-> SetNotifyRoot(SetNotifyKey(st, key), m.end).calls]

\* Config.set after its _merge, which left m.
SetMerged(st, m, key) ==
  IF m.end = Threw
  THEN [st |-> [st EXCEPT !.config = m.config], end |-> Threw, calls |-> << >>]
  ELSE SetNotifyRoot(SetNotifyKey([st EXCEPT !.config = m.config], key), m.end)

\* Config.set after `if (override) this._initializeConfig()`, which left i.
SetInitialized(i, value, key, onError) ==
  IF i.end = Threw THEN i
  ELSE SetMerged(i.st,
                 Merge(i.st.schema, i.st.config,
                       IF key # NoKey THEN SetPath(key, value) ELSE value,
                       onError, i.st.config.ref + 1),
                 key)

\* Config.set({override, value, key, onError}): the Config after the call,
\* how the call ended and the listener calls it made.
SetResult(st, override, value, key, onError) ==
  IF value = NullValue
  THEN [st |-> st, end |-> Noop, calls |-> << >>]
  ELSE SetInitialized(IF override THEN InitializeConfig(st, EmptyTree)
                      ELSE [st |-> st, end |-> Ok, calls |-> << >>],
                      value, key, onError)

\* Config.setSchema after the checks of newSchema and cfgArg: #config = {},
\* #schema = newSchema and the _merge, which left m.
SetSchemaEnd(st, newSchema, m) ==
  [st |-> [st EXCEPT !.schema = newSchema, !.config = m.config],
   end |-> m.end, calls |-> << >>]

\* setSchema's parameter `config = this.#config`.
SetSchemaConfig(st, cfgArg) == IF cfgArg = Omitted THEN st.config.val ELSE cfgArg

\* SetSchemaResult assigning #schema before it validates cfgArg.
SetSchemaAssignsFirst(st, newSchema, cfgArg) ==
  IF ValidateJoiThrows(newSchema) \/ newSchema = NullSchema
  THEN [st |-> st, end |-> Threw, calls |-> << >>]
  ELSE IF Validate(newSchema, SetSchemaConfig(st, cfgArg), FALSE).error # {}
  THEN [st |-> [st EXCEPT !.schema = newSchema], end |-> Threw, calls |-> << >>]
  ELSE SetSchemaEnd(st, newSchema,
                    Merge(newSchema, Value(st.config.ref + 1, NoKey, EmptyTree),
                          SetSchemaConfig(st, cfgArg), NoHandler, st.config.ref + 2))

\* Config.setSchema(newSchema, cfgArg): the Config after the call and how
\* the call ended.  A null newSchema has no validate: a TypeError.
SetSchemaResult(st, newSchema, cfgArg) ==
  IF ValidateJoiThrows(newSchema) \/ newSchema = NullSchema
  THEN [st |-> st, end |-> Threw, calls |-> << >>]
  ELSE IF Validate(newSchema, SetSchemaConfig(st, cfgArg), FALSE).error # {}
  THEN [st |-> st, end |-> Threw, calls |-> << >>]
  ELSE SetSchemaEnd(st, newSchema,
                    Merge(newSchema, Value(st.config.ref + 1, NoKey, EmptyTree),
                          SetSchemaConfig(st, cfgArg), NoHandler, st.config.ref + 2))

\* Config.subscribe with a key: onChange is pushed on o, the Observable of
\* the key.
SubscribeTo(st, o, onChange, key) ==
  [st EXCEPT !.observables =
     [k \in DOMAIN @ \cup {key} |-> IF k = key THEN ObsSubscribe(o, onChange) ELSE @[k]]]

\* Config.subscribe({onChange, key}) with an onChange: the Config after it.
SubscribeResult(st, onChange, key) ==
  IF key = NoKey
  THEN [st EXCEPT !.observable = ObsSubscribe(@, onChange)]
  ELSE SubscribeTo(st, IF key \in DOMAIN st.observables THEN st.observables[key]
                       ELSE ObsNew(GetValue(st.config, key)),
                   onChange, key)

\* Whether the Observable that subscriptions with `key` are made on exists.
HasTarget(st, key) == key = NoKey \/ key \in DOMAIN st.observables

\* The Observable that subscriptions with `key` are made on.
Target(st, key) == IF key = NoKey THEN st.observable ELSE st.observables[key]

\* The closure a subscribe of `listener` with `key` returned, called.
UnsubscribeResult(st, listener, key) ==
  IF key = NoKey
  THEN [st EXCEPT !.observable = ObsUnsubscribe(@, listener)]
  ELSE [st EXCEPT !.observables[key] = ObsUnsubscribe(@, listener)]

-----------------------------------------------------------------------------
(* Object identities are kept small: after every call the creations still  *)
(* referenced are renumbered 1, 2, ... in their order of creation.         *)

Refs(st) ==
  ({st.config.ref, st.observable.val.ref}
     \cup {st.observables[k].val.ref : k \in DOMAIN st.observables}) \ {0}

Rank(r, R) == IF r = 0 THEN 0 ELSE Cardinality({x \in R : x <= r})

Renumber(v, R) == [v EXCEPT !.ref = Rank(@, R)]

RenumberObs(o, R) == [o EXCEPT !.val = Renumber(@, R)]

NoListener == "none"

\* What a call leaves, its objects renumbered with R: the fields st of the
\* Config, the listener calls cl it made and how it ended.
Renumbered(st, cl, end, R) ==
  [schema |-> st.schema,
   config |-> Renumber(st.config, R),
   observable |-> RenumberObs(st.observable, R),
   observables |-> [k \in DOMAIN st.observables |-> RenumberObs(st.observables[k], R)],
   calls |-> [i \in DOMAIN cl |-> [cl[i] EXCEPT !.val = Renumber(@, R)]],
   result |-> end]

\* What a call that ended as r leaves.
After(r) == Renumbered(r.st, r.calls, r.end, Refs(r.st))

\* What new Config(s, c) leaves.
ConstructOutcome(s, c) == After(ConstructResult(State, s, c))

\* What config.set({override, value, key, onError}) leaves.
SetOutcome(override, value, key, onError) ==
  After(SetResult(State, override, value, key, onError))

\* What config.setSchema(newSchema, c) leaves.
SetSchemaOutcome(newSchema, c) == After(SetSchemaResult(State, newSchema, c))

\* What config.subscribe({onChange, key}) leaves.
SubscribeOutcome(onChange, key) ==
  After([st |-> IF onChange = NoListener THEN State
                ELSE SubscribeResult(State, onChange, key),
         end |-> IF onChange = NoListener THEN Noop ELSE Ok,
         calls |-> << >>])

\* What calling the closure subscribe({onChange: listener, key}) returned leaves.
UnsubscribeOutcome(listener, key) ==
  After([st |-> UnsubscribeResult(State, listener, key), end |-> Ok, calls |-> << >>])

\* The call's outcome becomes the state.
Commit(a) ==
  /\ schema' = a.schema
  /\ config' = a.config
  /\ observable' = a.observable
  /\ observables' = a.observables
  /\ calls' = a.calls
  /\ result' = a.result

Init ==
  /\ phase = "new"
  /\ schema = NullSchema
  /\ config = Value(0, NoKey, EmptyTree)
  /\ observable = ObsNew(Value(0, NoKey, EmptyTree))
  /\ observables = NoObservables
  /\ op = "none"
  /\ result = Ok
  /\ calls = << >>
  /\ obs = ObsNew(Value(0, NoKey, Prim(Undef)))
  /\ obsOp = "new"
  /\ obsCalls = << >>
  /\ obsGone = {}
  /\ pass = << >>
  /\ last = << >>
  /\ nested = FALSE

\* new Config(s, c)
Construct(s, c) ==
  /\ phase = "new"
  /\ Commit(ConstructOutcome(s, c))
  /\ phase' = IF result' = Threw THEN "failed" ELSE "live"
  /\ op' = "new"
  /\ UNCHANGED <<obsVars, passVars>>

\* config.set({override, value, key, onError})
Set(override, value, key, onError) ==
  /\ phase = "live"
  /\ Commit(SetOutcome(override, value, key, onError))
  /\ op' = "set"
  /\ phase' = phase
  /\ UNCHANGED <<obsVars, passVars>>

\* config.setSchema(newSchema, c)
SetSchema(newSchema, c) ==
  /\ phase = "live"
  /\ Commit(SetSchemaOutcome(newSchema, c))
  /\ op' = "setSchema"
  /\ phase' = phase
  /\ UNCHANGED <<obsVars, passVars>>

\* config.subscribe({onChange, key})
Subscribe(onChange, key) ==
  /\ phase = "live"
  /\ (onChange # NoListener /\ HasTarget(State, key))
       => Len(Target(State, key).listeners) < MaxListeners
  /\ Commit(SubscribeOutcome(onChange, key))
  /\ op' = "subscribe"
  /\ phase' = phase
  /\ UNCHANGED <<obsVars, passVars>>

\* The closure that subscribe({onChange: listener, key}) returned is called.
\* (A closure over an Observable that _initializeConfig has since replaced
\* changes nothing the Config still holds.)
Unsubscribe(listener, key) ==
  /\ phase = "live"
  /\ HasTarget(State, key)
  /\ \E i \in DOMAIN Target(State, key).listeners : Target(State, key).listeners[i] = listener
  /\ Commit(UnsubscribeOutcome(listener, key))
  /\ op' = "unsubscribe"
  /\ phase' = phase
  /\ UNCHANGED <<obsVars, passVars>>

Next ==
  \/ \E s \in SchemaArgs, c \in Patches : Construct(s, c)
  \/ \E o \in BOOLEAN, v \in Patches, e \in Handlers : Set(o, v, NoKey, e)
  \/ \E o \in BOOLEAN, k \in Keys \cup {NoKey} : Set(o, NullValue, k, NoHandler)
  \/ \E o \in BOOLEAN, k \in Keys, e \in Handlers : \E v \in KeyValues(k) : Set(o, v, k, e)
  \/ \E s \in SchemaArgs, c \in SchemaConfigs : SetSchema(s, c)
  \/ \E l \in Listeners \cup {NoListener}, k \in SubKeys \cup {NoKey} : Subscribe(l, k)
  \/ \E l \in Listeners, k \in SubKeys \cup {NoKey} : Unsubscribe(l, k)

Spec == Init /\ [][Next]_vars

-----------------------------------------------------------------------------
(* An Observable on its own *)

\* The longest listener list obs grows to.
MaxObsListeners == 3

ObsListeners == {"f", "g", "h"}

\* The values set on obs: two objects with the same content, a number and
\* undefined.
ObsValues ==
  { Value(1, NoKey, Leaf1(Pa, Num(1))), Value(2, NoKey, Leaf1(Pa, Num(1))),
    Value(0, NoKey, Prim(Num(1))), Value(0, NoKey, Prim(Undef)) }

\* Observable.get()
ObsGet(o) == o.val

\* obs.set(val)
OSet(val) ==
  /\ obs' = ObsSet(obs, val)
  /\ obsCalls' = ObsCalls(obs, val, NoKey)
  /\ obsOp' = "set"
  /\ obsGone' = obsGone
  /\ UNCHANGED <<configVars, passVars>>

\* obs.subscribe(listener)
OSubscribe(listener) ==
  /\ Len(obs.listeners) < MaxObsListeners
  /\ obs' = ObsSubscribe(obs, listener)
  /\ obsCalls' = << >>
  /\ obsOp' = "subscribe"
  /\ obsGone' = obsGone \ {listener}
  /\ UNCHANGED <<configVars, passVars>>

\* A closure that obs.subscribe(listener) returned is called: the listener is
\* subscribed, or was and its closure is called once more.
OUnsubscribe(listener) ==
  /\ listener \in obsGone \/ \E i \in DOMAIN obs.listeners : obs.listeners[i] = listener
  /\ obs' = ObsUnsubscribe(obs, listener)
  /\ obsCalls' = << >>
  /\ obsOp' = "unsubscribe"
  /\ obsGone' = obsGone \cup {listener}
  /\ UNCHANGED <<configVars, passVars>>

NextObservable ==
  \/ \E v \in ObsValues : OSet(v)
  \/ \E l \in ObsListeners : OSubscribe(l)
  \/ \E l \in ObsListeners : OUnsubscribe(l)

SpecObservable == Init /\ [][NextObservable]_vars

-----------------------------------------------------------------------------
(* A Config whose schema holds an array *)

\* The longest array the state grows to.
MaxArrayLen == 3

\* The values of set({value}) and of the constructor's config.
ArrayPatches ==
  { EmptyTree, Leaf1(Pa, Arr(<<1>>)), Leaf1(Pa, Arr(<<2>>)), Leaf1(Pa, Arr(<<1, 2>>)),
    Leaf1(Pa, Num(1)), Leaf1(Pbc, Num(1)) }

\* The key 'a.0' and the values of set({key: 'a.0', value}).
Pa0 == <<"a", "0">>
ElementValues == {Prim(Num(1)), Prim(Num(2))}

\* The length of the array at a, 0 when there is none.
ArrayLen(t) == IF Pa \in DOMAIN t /\ t[Pa].k = "arr" THEN Len(t[Pa].v) ELSE 0

\* new Config(ArraySchema, c)
ConstructArray(c) == Construct(ArraySchema, c)

\* config.set({override, value, onError}), while the array stays short.
SetArray(override, value, onError) ==
  /\ ArrayLen(config.val) + ArrayLen(value) <= MaxArrayLen
  /\ Set(override, value, NoKey, onError)

\* config.set({key: 'a.0', value, onError}), while the array stays short.
SetElement(value, onError) ==
  /\ ArrayLen(config.val) + ArrayLen(SetPath(Pa0, value)) <= MaxArrayLen
  /\ Set(FALSE, value, Pa0, onError)

NextArray ==
  \/ \E c \in ArrayPatches : ConstructArray(c)
  \/ \E o \in BOOLEAN, v \in ArrayPatches, e \in Handlers : SetArray(o, v, e)
  \/ \E v \in ElementValues, e \in Handlers : SetElement(v, e)
  \/ \E l \in Listeners, k \in SubKeys \cup {NoKey} : Subscribe(l, k)
  \/ \E l \in Listeners, k \in SubKeys \cup {NoKey} : Unsubscribe(l, k)

SpecArray == Init /\ [][NextArray]_vars

-----------------------------------------------------------------------------
(* Listeners that call back into the Config.  Observable.set runs its      *)
(* for-of loop over the array #listeners held when the loop began: a push  *)
(* by subscribe lengthens that array, the filter of an unsubscribe closure *)
(* puts a new array in #listeners and leaves the one being walked alone.   *)
(* A pass is one run of the loop: arr is the array it walks, live whether  *)
(* #listeners still is that array, idx the place of the next listener, val *)
(* the argument of set, running whether the listener at idx is executing,  *)
(* start the listeners subscribed when the loop began.                     *)

\* The longest listener list of the root Observable.
MaxPassListeners == 2
\* The deepest nesting of config.set calls.
MaxDepth == 2
\* The number of objects config.set commits in a run.
MaxSets == 2

PassListeners == {"f", "g"}
\* The value of the set({value}) calls; the schema S1 accepts it.
PassPatches == {Leaf1(Pa, Num(1))}

\* The top of the stack of passes.
Top == pass[Len(pass)]
\* Code outside every pass, or the body of the listener a pass is calling.
CanCall == IF pass = << >> THEN TRUE ELSE Top.running

\* new Config(S1, {})
PConstruct == Construct("S1", EmptyTree)

\* config.subscribe({onChange: listener}): a push on #listeners, which the
\* passes that walk this array see.
PSubscribe(listener) ==
  /\ phase = "live" /\ CanCall
  /\ Len(observable.listeners) < MaxPassListeners
  /\ observable' = ObsSubscribe(observable, listener)
  /\ pass' = IF pass = << >> THEN pass
             ELSE [i \in 1..Len(pass) |->
                     IF pass[i].live THEN [pass[i] EXCEPT !.arr = Append(@, listener)]
                     ELSE pass[i]]
  /\ UNCHANGED <<phase, schema, config, observables, op, result, calls,
                 obsVars, last, nested>>

\* The closure config.subscribe({onChange: listener}) returned is called:
\* #listeners becomes a new, filtered array.
PUnsubscribe(listener) ==
  /\ phase = "live" /\ CanCall
  /\ \E i \in DOMAIN observable.listeners : observable.listeners[i] = listener
  /\ observable' = ObsUnsubscribe(observable, listener)
  /\ pass' = IF pass = << >> THEN pass
             ELSE [i \in 1..Len(pass) |-> [pass[i] EXCEPT !.live = FALSE]]
  /\ UNCHANGED <<phase, schema, config, observables, op, result, calls,
                 obsVars, last, nested>>

\* The pass Observable.set(val) begins on o.
NewPass(o, val) ==
  [arr |-> o.listeners, live |-> TRUE, idx |-> 1, val |-> val, running |-> FALSE,
   start |-> o.listeners]

\* The listeners a pass has called so far, in order.
Invoked(f) == SubSeq(f.arr, 1, IF f.running THEN f.idx ELSE f.idx - 1)

\* config.set({value}) up to the loop of this.#observable.set(this.#config):
\* m is what _merge left.
PSetMerged(m) ==
  /\ m.end = Ok
  /\ config' = m.config
  /\ observable' = ObsSet(observable, m.config)
  /\ pass' = IF ObsChanges(observable, m.config)
             THEN Append(pass, NewPass(observable, m.config)) ELSE pass

\* config.set({value}), called from outside or by a listener.
PSet(value) ==
  /\ phase = "live" /\ CanCall
  /\ Len(pass) < MaxDepth
  /\ config.ref <= MaxSets
  /\ PSetMerged(Merge(schema, config, value, NoHandler, config.ref + 1))
  /\ last' = IF pass = << >> THEN << >> ELSE last
  /\ nested' = (pass # << >>)
  /\ UNCHANGED <<phase, schema, observables, op, result, calls, obsVars>>

\* Observable.set: listener(val) is called for the next entry of the array.
PInvoke ==
  /\ pass # << >> /\ ~Top.running /\ Top.idx <= Len(Top.arr)
  /\ pass' = [pass EXCEPT ![Len(pass)].running = TRUE]
  /\ last' = [l \in DOMAIN last \cup {Top.arr[Top.idx]} |->
                IF l = Top.arr[Top.idx] THEN Top.val ELSE last[l]]
  /\ UNCHANGED <<configVars, obsVars, nested>>

\* The listener returns.
PReturn ==
  /\ pass # << >> /\ Top.running
  /\ pass' = [pass EXCEPT ![Len(pass)].running = FALSE, ![Len(pass)].idx = @ + 1]
  /\ UNCHANGED <<configVars, obsVars, last, nested>>

\* Observable.set: the loop has come to the end of the array.
PFinish ==
  /\ pass # << >> /\ ~Top.running /\ Top.idx > Len(Top.arr)
  /\ pass' = SubSeq(pass, 1, Len(pass) - 1)
  /\ UNCHANGED <<configVars, obsVars, last, nested>>

NextReentrant ==
  \/ PConstruct
  \/ \E l \in PassListeners : PSubscribe(l)
  \/ \E l \in PassListeners : PUnsubscribe(l)
  \/ \E v \in PassPatches : PSet(v)
  \/ PInvoke
  \/ PReturn
  \/ PFinish

SpecReentrant == Init /\ [][NextReentrant]_vars

-----------------------------------------------------------------------------
(* Properties *)

Committed == result \in {Ok, Fallback}
SetValues(k) == IF k = NoKey THEN Patches ELSE KeyValues(k)
HasListener(o, l) == \E i \in DOMAIN o.listeners : o.listeners[i] = l
\* Whether the merge of the patch v into the current state fails validation.
FailsMerge(v) == Validate(schema, DeepMerge(config.val, v), FALSE).error # {}
\* Whether the merge of v into the current state fails on unknown keys only.
FailsOnUnknownOnly(v) ==
  LET errors == Validate(schema, DeepMerge(config.val, v), FALSE).error
  IN errors # {} /\ \A e \in errors : e.type = "unknown"

\* C1. Merge-validate atomicity: in every state of a live Config, for every
\* patch p whose merge into the state fails validation, set({value: p})
\* without onError throws and leaves config.get() equal to what it was.
C1_MergeValidateAtomicity ==
  phase = "live" =>
    \A v \in Patches :
      FailsMerge(v) =>
        LET a == SetOutcome(FALSE, v, NoKey, NoHandler)
        IN a.result = Threw /\ a.config.val = config.val

\* A set has thrown and left a state that is not {}, in which some patch
\* still fails the merge.
C1_Witness ==
  /\ phase = "live" /\ op = "set" /\ result = Threw /\ calls = << >>
  /\ config.val # EmptyTree
  /\ \E v \in Patches : FailsMerge(v)

\* C2. State validity: the state of a live Config has passed validation
\* against the current schema, strictly or with allowUnknown: it has no
\* validation error other than unknown keys.
C2_StateValid ==
  phase = "live" => Validate(schema, config.val, TRUE).error = {}

\* C3. Swallow path: a set whose merged value fails validation and whose
\* onError returns false does not throw, leaves config.get() unchanged and
\* invokes no listener, with or without key and override.
C3_SwallowLeavesState ==
  [][\A o \in BOOLEAN, k \in Keys \cup {NoKey} : \A v \in SetValues(k) :
       LET base == IF o THEN EmptyTree ELSE config.val
           setValue == IF k = NoKey THEN v ELSE SetPath(k, v)
       IN (Validate(schema, DeepMerge(base, setValue), FALSE).error # {}
             /\ Set(o, v, k, Reject))
          => (result' # Threw /\ config'.val = config.val /\ calls' = << >>)]_vars

\* C4. Lenient fallback: when the merge of a patch holding the unknown key x
\* fails validation on unknown keys only, set({value, onError: () => true})
\* does not throw and commits the allowUnknown validation of the merged
\* value: the state holds x and every key it held before.
C4_LenientFallback ==
  phase = "live" =>
    \A v \in Patches :
      (Px \in DOMAIN v /\ FailsOnUnknownOnly(v)) =>
        LET merged == DeepMerge(config.val, v)
            a == SetOutcome(FALSE, v, NoKey, Accept)
        IN /\ a.result = Fallback
           /\ a.config.val = Validate(schema, merged, TRUE).value
           /\ Px \in DOMAIN a.config.val /\ a.config.val[Px] = v[Px]
           /\ \A p \in DOMAIN config.val :
                /\ p \in DOMAIN a.config.val
                /\ (p \notin DOMAIN v => a.config.val[p] = config.val[p])

\* A fallback has committed a state with the unknown key x beside the keys a
\* and b.c, and with no error but unknown keys.
C4_Witness ==
  /\ phase = "live" /\ op = "set" /\ result = Fallback
  /\ {Pa, Pbc, Px} \subseteq DOMAIN config.val
  /\ Validate(schema, config.val, TRUE).error = {}
  /\ \E v \in Patches : Px \in DOMAIN v /\ FailsOnUnknownOnly(v)

\* C5. Key observables: after a successful set or setSchema every per-key
\* Observable holds the value identical to config.get(key).
C5_KeyObservablesCurrent ==
  (phase = "live" /\ op \in {"set", "setSchema"} /\ Committed)
    => \A k \in DOMAIN observables : observables[k].val = GetValue(config, k)

\* C6. Root observable: after a successful construction, set or setSchema the
\* root Observable's value is identical to config.get().
C6_RootObservableCurrent ==
  (phase = "live" /\ op \in {"new", "set", "setSchema"} /\ Committed)
    => observable.val = config

\* C7. Subscription persistence: no call but the listener's own unsubscribe
\* takes a listener off the root or a per-key Observable, and no call
\* discards a per-key Observable.
C7_SubscriptionsPersist ==
  [][(phase = "live" /\ op' # "unsubscribe")
       => /\ \A l \in Listeners : HasListener(observable, l) => HasListener(observable', l)
          /\ \A k \in DOMAIN observables :
               /\ k \in DOMAIN observables'
               /\ \A l \in Listeners :
                    HasListener(observables[k], l) => HasListener(observables'[k], l)]_vars

\* C8. Override is a full replace: for a value v that satisfies the schema on
\* its own, set({override: true, value: v}) succeeds and leaves config.get()
\* equal to the schema-normalized v.
C8_OverrideReplaces ==
  [][\A v \in Patches :
       (Validate(schema, v, FALSE).error = {} /\ Set(TRUE, v, NoKey, NoHandler))
       => (result' = Ok /\ config'.val = Validate(schema, v, FALSE).value)]_vars

\* C9. Schema swap: setSchema(s, c) with c (the current state, when c is left
\* out) satisfying the schema s succeeds, leaves a state that validates
\* against s and makes s the schema that later sets are validated against;
\* with c failing s, or s not a schema, it throws and leaves the schema and
\* the state as they were.
C9_SchemaSwap ==
  phase = "live" =>
    \A s \in SchemaArgs : \A c \in SchemaConfigs :
      LET a == SetSchemaOutcome(s, c)
      IN IF s \in SchemaIds /\ Validate(s, SetSchemaConfig(State, c), FALSE).error = {}
         THEN /\ a.result = Ok /\ a.schema = s
              /\ Validate(s, a.config.val, FALSE).error = {}
              /\ \A v \in Patches :
                   SetResult(a, FALSE, v, NoKey, NoHandler).end = Ok
                     <=> Validate(s, DeepMerge(a.config.val, v), FALSE).error = {}
         ELSE a.result = Threw /\ a.schema = schema /\ a.config = config

\* setSchema has replaced a schema under which {} was valid by S2 and the
\* state {} by one that has the key S2 requires.
C9_Witness ==
  /\ phase = "live" /\ op = "setSchema" /\ result = Ok /\ schema = "S2"
  /\ observable.val.val = EmptyTree /\ Pa \in DOMAIN config.val

\* C10. Observable dedup: set(v) calls the listeners, once each and with v,
\* if and only if v is not identical to the stored value, and get() then
\* returns v.
C10_ObservableDedup ==
  [][\A v \in ObsValues :
       OSet(v)
       => /\ obsCalls' =
               IF ObsGet(obs) = v THEN << >>
               ELSE [i \in DOMAIN obs.listeners |->
                       [obs |-> NoKey, listener |-> obs.listeners[i], val |-> v]]
          /\ ObsGet(obs') = v]_vars

\* A set of the object that obs already holds has called none of its listeners.
C10_Witness ==
  /\ obsOp = "set" /\ obs.listeners # << >> /\ obsCalls = << >> /\ obs.val.ref # 0

\* How many times the listener l is in the list.
Occurrences(listeners, l) == Cardinality({i \in DOMAIN listeners : listeners[i] = l})
\* How many calls of the listener l with the value v the log holds.
CallsOf(log, l, v) ==
  Cardinality({i \in DOMAIN log : log[i].listener = l /\ log[i].val = v})

\* C11. Unsubscribe correctness: a listener whose unsubscribe closure was
\* called is called by no later set, and the closure takes no other listener
\* off the Observable: a changing set still calls each of them, once for
\* each of its subscriptions.
C11_UnsubscribeStops ==
  [][/\ \A l \in ObsListeners :
          OUnsubscribe(l) =>
            \A g \in ObsListeners \ {l} :
              Occurrences(obs'.listeners, g) = Occurrences(obs.listeners, g)
     /\ \A v \in ObsValues :
          OSet(v) =>
            /\ \A i \in DOMAIN obsCalls' : obsCalls'[i].listener \notin obsGone
            /\ ObsGet(obs) # v =>
                 \A g \in ObsListeners \ obsGone :
                   CallsOf(obsCalls', g, v) = Occurrences(obs.listeners, g)]_vars

\* After f and g subscribed and f's closure was called, a set has called g
\* and not f.
C11_Witness ==
  /\ obsOp = "set" /\ obsGone = {"f"}
  /\ obsCalls # << >> /\ \A i \in DOMAIN obsCalls : obsCalls[i].listener = "g"

\* C12. Duplicate subscriptions: when a listener is subscribed twice to the
\* Observable and one of the two closures is called, one subscription of it
\* remains.
C12_DuplicatesDistinguishable ==
  [][\A l \in ObsListeners :
       (Occurrences(obs.listeners, l) = 2 /\ l \notin obsGone /\ OUnsubscribe(l))
       => Occurrences(obs'.listeners, l) = 1]_vars

\* The listeners of a log of calls, in the order of the calls.
CalledInOrder(log) == [i \in DOMAIN log |-> log[i].listener]

\* C18. Notification order: subscribe puts the listener after every listener
\* subscribed before, unsubscribe keeps the order of the listeners that stay,
\* and a set that changes the value calls every subscribed listener once, in
\* that order, each with the new value.
C18_NotificationOrder ==
  [][/\ \A l \in ObsListeners : OSubscribe(l) =>
          /\ Len(obs'.listeners) = Len(obs.listeners) + 1
          /\ obs'.listeners[Len(obs'.listeners)] = l
          /\ SubSeq(obs'.listeners, 1, Len(obs.listeners)) = obs.listeners
     /\ \A l \in ObsListeners : OUnsubscribe(l) =>
          obs'.listeners = SelectSeq(obs.listeners, LAMBDA g : g # l)
     /\ \A v \in ObsValues : (OSet(v) /\ ObsGet(obs) # v) =>
          /\ CalledInOrder(obsCalls') = obs.listeners
          /\ \A i \in DOMAIN obsCalls' : obsCalls'[i].val = v]_vars

\* A set has called g, f, g in this order after h was unsubscribed.
C18_Witness ==
  /\ obsOp = "set"
  /\ obsGone = {"h"}
  /\ CalledInOrder(obsCalls) = <<"g", "f", "g">>


\* Whether the state strictly satisfies the current schema.
StrictlyValid == Validate(schema, config.val, FALSE).error = {}

\* C14. Empty patch: in every state of a live Config that strictly satisfies
\* the schema, set({value: {}}) returns without throwing and leaves a state
\* with the content of the state before the call.
C14_EmptyPatchNoOp ==
  (phase = "live" /\ StrictlyValid) =>
    LET a == SetOutcome(FALSE, EmptyTree, NoKey, NoHandler)
    IN a.result = Ok /\ a.config.val = config.val

\* A set has returned in a strictly valid state that is not {}.
C14_Witness ==
  /\ phase = "live" /\ op = "set" /\ result = Ok
  /\ StrictlyValid
  /\ config.val # EmptyTree
  /\ SetOutcome(FALSE, EmptyTree, NoKey, NoHandler).config.val = config.val


\* C15. Optional schema: new Config() with the default schema null and any
\* initial values of the model, the default {} among them, succeeds, and
\* with the default initial values get() returns the empty state.
C15_SchemaOptional ==
  [][\A c \in Patches : Construct(NullSchema, c) =>
       /\ phase' = "live"
       /\ c = EmptyTree => config'.val = EmptyTree]_vars


\* Whether the outcome a of set({key: k}) left the Observable of k, if there
\* is one, and the root Observable holding the committed state, and made
\* every listener call with it.
NotifiedOfCommitted(a, k) ==
  /\ a.observable.val = a.config
  /\ k \in DOMAIN a.observables => a.observables[k].val = GetValue(a.config, k)
  /\ \A i \in DOMAIN a.calls :
       a.calls[i].val = IF a.calls[i].obs = NoKey THEN a.config
                        ELSE GetValue(a.config, k)

\* C17. Keyed set: in every state of a live Config, a set({key: k, value: v})
\* that returns leaves the Observable of k, if there is one, holding get(k)
\* and the root Observable holding get(), and every listener it called, of
\* the key or of the root, was called after the commit, with the committed
\* state.
C17_KeyedSetNotifies ==
  phase = "live" =>
    \A o \in BOOLEAN, k \in Keys, e \in Handlers : \A v \in KeyValues(k) :
      SetOutcome(o, v, k, e).result # Threw
        => NotifiedOfCommitted(SetOutcome(o, v, k, e), k)

\* A keyed set has committed and called a listener of the key and a listener
\* of the root.
C17_Witness ==
  /\ phase = "live" /\ op = "set" /\ result = Ok
  /\ \E i, j \in DOMAIN calls :
       /\ i < j /\ calls[i].obs = Pa /\ calls[j].obs = NoKey
       /\ calls[i].val = GetValue(config, Pa) /\ calls[j].val = config
  /\ Pa \in DOMAIN observables /\ observables[Pa].val = GetValue(config, Pa)
  /\ observable.val = config


\* Whether, in the state set({value: v}) left as r, every array of v stands
\* in place of what the state held there, and a second set({value: v}) leaves
\* the same content.
ReplacesAndRepeats(r, v) ==
  /\ \A p \in DOMAIN v : v[p].k = "arr" => r.st.config.val[p] = v[p]
  /\ SetResult(r.st, FALSE, v, NoKey, NoHandler).end = Ok
  /\ SetResult(r.st, FALSE, v, NoKey, NoHandler).st.config.val = r.st.config.val

\* C19. Array merge policy: in every state of a live Config, a patch that
\* set commits leaves its arrays in the state in place of the arrays the
\* state held, and a second set of the same patch leaves a state with the
\* same content.
C19_ArrayReplaceIdempotent ==
  phase = "live" =>
    \A v \in ArrayPatches :
      SetResult(State, FALSE, v, NoKey, NoHandler).end = Ok
        => ReplacesAndRepeats(SetResult(State, FALSE, v, NoKey, NoHandler), v)


\* Whether the outcome a of set({key: k, value: v}) in the current state
\* holds v at k and, under the parent of k, every sibling the state held.
RoundTrips(a, k, v) ==
  /\ Get(a.config.val, k) = v
  /\ \A p \in DOMAIN Get(config.val, Parent(k)) :
       ~Related(p, <<k[Len(k)]>>)
         => /\ p \in DOMAIN Get(a.config.val, Parent(k))
            /\ Get(a.config.val, Parent(k))[p] = Get(config.val, Parent(k))[p]

\* C13. Dotted-key round trip: in every state of a live Config, for every
\* dotted path k and value v that is not a container, a set({key: k,
\* value: v}) that commits strictly leaves get(k) = v and get(parent of k)
\* holding every sibling key it held before.
C13_DottedKeyRoundTrip ==
  phase = "live" =>
    /\ \A v \in ElementValues :
         SetOutcome(FALSE, v, Pa0, NoHandler).result = Ok
           => RoundTrips(SetOutcome(FALSE, v, Pa0, NoHandler), Pa0, v)
    /\ \A k \in Keys : \A v \in KeyValues(k) :
         SetOutcome(FALSE, v, k, NoHandler).result = Ok
           => RoundTrips(SetOutcome(FALSE, v, k, NoHandler), k, v)


\* C16. Reentrant subscribe and unsubscribe: when a notification pass of
\* Observable.set ends, the listeners it has called are the listeners that
\* were subscribed when it began, whatever the listeners subscribed or
\* unsubscribed while they ran.
C16_PassSnapshot ==
  [][PFinish => Invoked(Top) = Top.start]_vars

\* C20. No stale delivery: during an outermost config.set whose root
\* listeners call config.set, no listener is called with an older state
\* after it was called with a newer one (every commit makes a new object,
\* numbered in the order of the commits), so that the value a listener was
\* last called with is the state config.get() returns.
C20_NoStaleDelivery ==
  [][PInvoke => \A l \in DOMAIN last : last'[l].ref >= last[l].ref]_vars
====
